---- MODULE Spec2Model ----
(***************************************************************************)
(* A model of the tvmaze client (src/tvmaze.go): the cache-backed fetch    *)
(* layer (NewClient, WriteCache, Go, GetShow, GetEpisodes) and the show    *)
(* resolution of FindShow.                                                 *)
(*                                                                         *)
(* Spec is a client with its cache file, SpecAPI a client whose caller     *)
(* also sets Region and BaseURI, SpecResolve the matching loop of FindShow  *)
(* on every query, candidate list and region within the bounds.            *)
(*                                                                         *)
(* Time is counted in weeks, the unit of the cache's default expiration.   *)
(* Strings that the code compares character by character (show names) are  *)
(* sequences of one-character strings; all other strings are TLA+ strings. *)
(***************************************************************************)
EXTENDS Naturals, Sequences, FiniteSets, TLC

\* ------------------------------------------------------------------ bounds
MaxTime == 2          \* the clock runs from 0 to MaxTime weeks
MaxNameLen == 2       \* longest show name / query of the resolver inputs
MaxCands == 2         \* longest candidate list of the resolver inputs
NumCallers == 2       \* callers that share one client (SpecConc)

\* ------------------------------------------------------- program constants
DefaultExpiration == 1   \* cache.New(time.Minute*60*24*7, ...): one week

\* ------------------------------------------------------------ value spaces
Nil == "nil"                                  \* a nil error / nil []byte
NoName == << >>                               \* the empty string as characters
NoShow == [Name |-> NoName, Code |-> ""]      \* Show{} (the zero value)

Alphabet == {"a", "A"}
Codes == {"", "US"}                           \* Show.Network.Country.Code

SeqsUpTo(S, n) == UNION {[1..k -> S] : k \in 0..n}

Names == SeqsUpTo(Alphabet, MaxNameLen)
Shows == [Name : Names, Code : Codes]
Candidates == [Show : Shows]
CandidateLists == SeqsUpTo(Candidates, MaxCands)

DefaultBaseURI == "http://api.tvmaze.com"
BadBaseURI == "http://[api"                   \* url.Parse fails on it
BaseURIs == {DefaultBaseURI, BadBaseURI}

\* the regions the fetch-layer client is configured with
ClientRegions == {"", "US"}

\* the show name and show id the fetch-layer operations are called with
QueryName == <<"a">>
ShowID == 1

\* a parsed *url.URL: base, route and the encoded query or show id
SearchURI(base, show) == [base |-> base, route |-> "/search/shows", q |-> show, id |-> 0]
EpisodesURI(base, showID) == [base |-> base, route |-> "/shows/%d/episodes", q |-> NoName, id |-> showID]
\* a hand-built url.URL whose String() does not parse again (a host with a blank)
BadURI == [base |-> "http://a b", route |-> "", q |-> NoName, id |-> 0]

URIs == {SearchURI(DefaultBaseURI, QueryName), EpisodesURI(DefaultBaseURI, ShowID), BadURI}

\* response bodies the service can deliver
Doc == "[{...},{...}]"                        \* a JSON array of two objects
Junk == "<html>"                              \* not JSON of the expected shape
Bodies == {Doc, Junk}

StatusCodes == {200, 404, 599}

\* the identifying value of the caller; NoAgent is the unset field
NoAgent == ""
UserAgents == {NoAgent, "myapp/1.0"}

\* ------------------------------------------------------------------- state
VARIABLES
  live,      \* TRUE while the caller holds a client returned by NewClient
  Cache,     \* Client.Cache: the items map of the in-memory store
  UseCache,  \* Client.UseCache
  Region,    \* Client.Region
  BaseURI,   \* Client.BaseURI
  file,      \* what is at the path Client.CacheFile
  now,       \* the clock
  ret,       \* the last operation: its name, arguments and results
  input,     \* the arguments drawn for the resolver (SpecResolve only)
  UserAgent, \* Client.UserAgent as the README declares it
  callers,   \* the Go calls in flight, one per caller (SpecConc only)
  served     \* the 200 responses delivered so far, as <<uri, body>> (SpecConc only)

vars == <<live, Cache, UseCache, Region, BaseURI, file, now, ret, input, UserAgent, callers, served>>
fields == <<UseCache, Region, BaseURI, UserAgent>>
conc == <<callers, served>>

\* ----------------------------------------------------------------- strings
ToLowerChar(ch) == IF ch = "A" THEN "a" ELSE ch
ToLower(s) == [i \in DOMAIN s |-> ToLowerChar(s[i])]
HasPrefix(s, prefix) ==
  /\ Len(prefix) <= Len(s)
  /\ SubSeq(s, 1, Len(prefix)) = prefix

StatusText(code) ==
  CASE code = 200 -> "OK"
    [] code = 404 -> "Not Found"
    [] OTHER -> ""

\* ------------------------------------------------------------------ errors
ErrNewRequest == "parse: invalid URL"
ErrParseBase == "parse: missing ']' in host"
ErrTransport == "Get: transport failure"
ErrReadBody == "unexpected EOF"
ErrDecode == "invalid character looking for beginning of value"
ErrNotFound == "Failed to match show in tvmaze!"
ErrOpen == "open: permission denied"
ErrGob == "gob: decode failure"
ErrCreate == "create: permission denied"
ErrWrite == "write: no space left on device"
\* variant: the status error without the reason of the status
StatusError_NoReason(code) == "Request failed: "

StatusError(code) == "Request failed: " \o StatusText(code)

\* ------------------------------------------------------------- cache store
Item(object, expiration) == [Object |-> object, Expiration |-> expiration]
Expired(item, t) == t > item.Expiration

EmptyCache == [k \in {} |-> Item(Nil, 0)]

CacheGet(items, k, t) ==
  IF k \in DOMAIN items /\ ~Expired(items[k], t)
  THEN [data |-> items[k].Object, found |-> TRUE]
  ELSE [data |-> Nil, found |-> FALSE]

CacheSet(items, k, x, d, t) ==
  LET e == IF d = 0 THEN t + DefaultExpiration ELSE t + d
  IN  [j \in DOMAIN items \cup {k} |-> IF j = k THEN Item(x, e) ELSE items[j]]

\* the cache file: absent, present but not accessible, or present with content
NoFile == [state |-> "absent", items |-> {}]
NoAccessFile == [state |-> "noaccess", items |-> {}]
UnreadableFile == [state |-> "unreadable", items |-> {}]
CorruptFile == [state |-> "corrupt", items |-> {}]

Encode(items) == {<<k, items[k].Object, items[k].Expiration>> : k \in DOMAIN items}
Decode(triples) ==
  [k \in {tr[1] : tr \in triples} |->
     LET tr == CHOOSE x \in triples : x[1] = k IN Item(tr[2], tr[3])]

SaveFile(items, f) ==
  IF f.state \in {"noaccess", "unreadable"}
  THEN {[err |-> ErrCreate, file |-> f]}
  ELSE {[err |-> Nil, file |-> [state |-> "gob", items |-> Encode(items)]],
        [err |-> ErrWrite, file |-> CorruptFile]}

LoadFile(items, f) ==
  CASE f.state \in {"absent", "noaccess", "unreadable"} -> [err |-> ErrOpen, items |-> items]
    [] f.state = "corrupt" -> [err |-> ErrGob, items |-> items]
    [] OTHER ->
         LET loaded == Decode(f.items)
         IN  [err |-> Nil,
              items |-> [k \in DOMAIN items \cup DOMAIN loaded |->
                           IF k \in DOMAIN items THEN items[k] ELSE loaded[k]]]

Stat(f) == IF f.state \in {"absent", "noaccess"} THEN ErrOpen ELSE Nil

\* ------------------------------------------------------------------ events
Event(op) ==
  [op |-> op, uri |-> BadURI, name |-> NoName, data |-> Nil, err |-> Nil,
   reqs |-> 0, status |-> 0, cands |-> << >>, show |-> NoShow, exit |-> FALSE,
   gocalls |-> 0, agent |-> NoAgent]

\* ------------------------------------------------------------- the network
NewRequest(uri) == IF uri = BadURI THEN ErrNewRequest ELSE Nil

\* what c.Do and ioutil.ReadAll can deliver for one GET
Responses ==
  {[err |-> ErrTransport, status |-> 0, body |-> Nil, readErr |-> Nil]}
  \cup {[err |-> Nil, status |-> s, body |-> Nil, readErr |-> Nil] : s \in StatusCodes \ {200}}
  \cup {[err |-> Nil, status |-> 200, body |-> Nil, readErr |-> ErrReadBody]}
  \cup {[err |-> Nil, status |-> 200, body |-> b, readErr |-> Nil] : b \in Bodies}

\* ---------------------------------------------------------------- Client.Go
\* the outcomes of one call c.Go(uri): the returned data and error, the
\* number of requests sent, and the cache afterwards
\* variants of the cache test: the flag read without its negation, and the
\* flag not read at all
Miss_FlagInverted(found) == ~found \/ UseCache
Miss_FlagIgnored(found) == ~found

\* the cache test with the result of the lookup negated once too often
Miss_FoundInverted(found) == found \/ ~UseCache

Miss(found) == ~found \/ ~UseCache

\* variant: a failed c.Do is tried a second time
Sent_RetryOnError(resp) == IF resp.err # Nil THEN 2 ELSE 1

\* the requests sent for one response: c.Do is called once
Sent(resp) == 1

\* variant: only a body that decodes is stored
Store_OnlyValid(uri, body) == IF body = Junk THEN Cache ELSE CacheSet(Cache, uri, body, 0, now)

\* c.Cache.Set(uri.String(), data, 0)
Store(uri, body) == CacheSet(Cache, uri, body, 0, now)

\* the User-Agent header Go puts on the request it builds: none
RequestAgent == NoAgent

\* variant: a response with a status other than 200 drops the stored entry
GoOutcomes_InvalidateOnStatus(uri) ==
  LET got == CacheGet(Cache, uri, now)
      out(data, err, reqs, status, items) ==
        [data |-> data, err |-> err, reqs |-> reqs, status |-> status, Cache |-> items]
  IN  IF Miss(got.found)
      THEN IF NewRequest(uri) # Nil
           THEN {out(Nil, NewRequest(uri), 0, 0, Cache)}
           ELSE {IF resp.err # Nil THEN out(Nil, resp.err, Sent(resp), 0, Cache)
                 ELSE IF resp.status # 200
                      THEN out(Nil, StatusError(resp.status), Sent(resp), resp.status,
                               [k \in DOMAIN Cache \ {uri} |-> Cache[k]])
                 ELSE IF resp.readErr # Nil THEN out(Nil, resp.readErr, Sent(resp), 200, Cache)
                 ELSE out(resp.body, Nil, Sent(resp), 200, Store(uri, resp.body))
                 : resp \in Responses}
      ELSE {out(got.data, Nil, 0, 0, Cache)}

GoOutcomes(uri) ==
  LET got == CacheGet(Cache, uri, now)
      out(data, err, reqs, status, items) ==
        [data |-> data, err |-> err, reqs |-> reqs, status |-> status, Cache |-> items]
  IN  IF Miss(got.found)
      THEN IF NewRequest(uri) # Nil
           THEN {out(Nil, NewRequest(uri), 0, 0, Cache)}
           ELSE {IF resp.err # Nil THEN out(Nil, resp.err, Sent(resp), 0, Cache)
                 ELSE IF resp.status # 200
                      THEN out(Nil, StatusError(resp.status), Sent(resp), resp.status, Cache)
                 ELSE IF resp.readErr # Nil THEN out(Nil, resp.readErr, Sent(resp), 200, Cache)
                 ELSE out(resp.body, Nil, Sent(resp), 200, Store(uri, resp.body))
                 : resp \in Responses}
      ELSE {out(got.data, Nil, 0, 0, Cache)}

Go(uri) ==
  /\ live
  /\ \E o \in GoOutcomes(uri) :
       /\ Cache' = o.Cache
       /\ ret' = [Event("Go") EXCEPT !.uri = uri, !.data = o.data, !.err = o.err,
                                     !.reqs = o.reqs, !.status = o.status,
                                     !.gocalls = 1, !.agent = RequestAgent]
  /\ UNCHANGED <<live, fields, file, now, input, conc>>

\* ------------------------------------------------------------ json.Unmarshal
\* Doc is a search result: a JSON array of objects.  It decodes into either
\* slice type; the fields an object lacks keep their zero values.
DocCandidates ==
  << [Show |-> [Name |-> <<"a", "a">>, Code |-> ""]],
     [Show |-> [Name |-> <<"A">>, Code |-> "US"]] >>
ZeroEpisode == [ID |-> 0, Season |-> 0, Number |-> 0]

UnmarshalCandidates(jsondata) ==
  IF jsondata = Doc THEN [err |-> Nil, v |-> DocCandidates]
  ELSE [err |-> ErrDecode, v |-> << >>]

UnmarshalEpisodes(jsondata) ==
  IF jsondata = Doc THEN [err |-> Nil, v |-> [i \in DOMAIN DocCandidates |-> ZeroEpisode]]
  ELSE [err |-> ErrDecode, v |-> << >>]

ParseBase(base) == IF base = BadBaseURI THEN ErrParseBase ELSE Nil

\* ----------------------------------------------------------- Client.GetShow
\* the outcomes of one call c.GetShow(show); fatal is log.Fatal's exit
GetShowOutcomes(show) ==
  LET out(cands, err, o, fatal) ==
        [cands |-> cands, err |-> err, reqs |-> o.reqs, status |-> o.status,
         Cache |-> o.Cache, fatal |-> fatal, gocalls |-> IF fatal THEN 0 ELSE 1]
  IN  IF ParseBase(BaseURI) # Nil
      THEN {out(<< >>, ParseBase(BaseURI), [reqs |-> 0, status |-> 0, Cache |-> Cache], TRUE)}
      ELSE {IF o.err # Nil THEN out(<< >>, o.err, o, FALSE)
            ELSE IF UnmarshalCandidates(o.data).err # Nil
                 THEN out(<< >>, UnmarshalCandidates(o.data).err, o, FALSE)
            ELSE out(UnmarshalCandidates(o.data).v, Nil, o, FALSE)
            : o \in GoOutcomes(SearchURI(BaseURI, show))}

\* the process has exited: the client and its in-memory cache are gone
Exit(ev) ==
  /\ live' = FALSE
  /\ Cache' = EmptyCache
  /\ UseCache' = FALSE
  /\ Region' = ""
  /\ BaseURI' = DefaultBaseURI
  /\ UserAgent' = NoAgent
  /\ ret' = [ev EXCEPT !.exit = TRUE]

GetShow(show) ==
  /\ live
  /\ \E o \in GetShowOutcomes(show) :
       LET ev == [Event("GetShow") EXCEPT !.uri = SearchURI(BaseURI, show), !.name = show,
                                          !.cands = o.cands, !.err = o.err,
                                          !.reqs = o.reqs, !.status = o.status,
                                          !.gocalls = o.gocalls]
       IN  IF o.fatal THEN Exit(ev)
           ELSE /\ Cache' = o.Cache
                /\ ret' = ev
                /\ UNCHANGED <<live, fields>>
  /\ UNCHANGED <<file, now, input, conc>>

\* ------------------------------------------------------- Client.GetEpisodes
GetEpisodes(showID) ==
  /\ live
  /\ LET ev == [Event("GetEpisodes") EXCEPT !.uri = EpisodesURI(BaseURI, showID)]
     IN  IF ParseBase(BaseURI) # Nil
         THEN /\ ret' = [ev EXCEPT !.err = ParseBase(BaseURI)]
              /\ UNCHANGED Cache
         ELSE \E o \in GoOutcomes(EpisodesURI(BaseURI, showID)) :
                LET ev2 == [ev EXCEPT !.reqs = o.reqs, !.status = o.status, !.gocalls = 1]
                IN  /\ Cache' = o.Cache
                    /\ ret' = IF o.err # Nil THEN [ev2 EXCEPT !.err = o.err]
                              ELSE IF UnmarshalEpisodes(o.data).err # Nil
                                   THEN [ev2 EXCEPT !.err = UnmarshalEpisodes(o.data).err]
                              ELSE [ev2 EXCEPT !.cands = UnmarshalEpisodes(o.data).v]
  /\ UNCHANGED <<live, fields, file, now, input, conc>>

\* ---------------------------------------------------------- Client.FindShow
\* the two rounds of the matching loop over the candidates, from candidate i
\* of round retry on
\* variants of the tests of the matching loop: the region round without the
\* country test, a case-sensitive equality, a prefix accepted in every round
RegionAccept_AnyCountry(region, show, showname) == HasPrefix(show.Name, showname)
EqualAccept_CaseSensitive(show, showname) == show.Name = showname
PrefixAccept_EveryRound(retry, show, showname) == HasPrefix(show.Name, showname)

RegionRound(region, retry) == region # "" /\ retry < 1
RegionAccept(region, show, showname) == region = show.Code /\ HasPrefix(show.Name, showname)
EqualAccept(show, showname) == ToLower(show.Name) = ToLower(showname)
PrefixAccept(retry, show, showname) == retry > 0 /\ HasPrefix(show.Name, showname)

RECURSIVE MatchShow(_, _, _, _, _)
MatchShow(candidates, showname, region, retry, i) ==
  IF retry > 1 THEN [err |-> ErrNotFound, show |-> NoShow]
  ELSE IF i > Len(candidates) THEN MatchShow(candidates, showname, region, retry + 1, 1)
  ELSE LET show == candidates[i].Show
       IN  IF RegionRound(region, retry)
           THEN IF RegionAccept(region, show, showname)
                THEN [err |-> Nil, show |-> show]
                ELSE MatchShow(candidates, showname, region, retry, i + 1)
           ELSE IF EqualAccept(show, showname)
                THEN [err |-> Nil, show |-> show]
                ELSE IF PrefixAccept(retry, show, showname)
                THEN [err |-> Nil, show |-> show]
                ELSE MatchShow(candidates, showname, region, retry, i + 1)

FindShow(showname) ==
  /\ live
  /\ \E o \in GetShowOutcomes(showname) :
       LET ev == [Event("FindShow") EXCEPT !.uri = SearchURI(BaseURI, showname), !.name = showname,
                                           !.reqs = o.reqs, !.status = o.status,
                                           !.gocalls = o.gocalls]
           m == MatchShow(o.cands, showname, Region, 0, 1)
       IN  IF o.fatal THEN Exit([ev EXCEPT !.err = o.err])
           ELSE /\ Cache' = o.Cache
                /\ ret' = IF o.err # Nil THEN [ev EXCEPT !.err = o.err]
                          ELSE [ev EXCEPT !.cands = o.cands, !.err = m.err, !.show = m.show]
                /\ UNCHANGED <<live, fields>>
  /\ UNCHANGED <<file, now, input, conc>>

\* the matching alone, on the arguments drawn at the start
Resolve ==
  /\ ret.op = "start"
  /\ LET m == MatchShow(input.candidates, input.showname, Region, 0, 1)
     IN  ret' = [Event("Match") EXCEPT !.name = input.showname, !.cands = input.candidates,
                                        !.err = m.err, !.show = m.show]
  /\ UNCHANGED <<live, Cache, fields, file, now, input, conc>>

\* ---------------------------------------------------------------- NewClient
\* variants of the test of os.Stat's error: the file never loaded, and the
\* file loaded whatever os.Stat reports
FileExists_Never(f) == FALSE
FileExists_Always(f) == TRUE

\* the test of os.Stat's error
FileExists(f) == Stat(f) = Nil

\* variant: a client that uses the cache from the start
DefaultUseCache_On == TRUE

\* the fields the struct literal leaves out keep their zero value
DefaultUseCache == FALSE

NewClient ==
  LET loaded == IF FileExists(file) THEN LoadFile(EmptyCache, file)
                ELSE [err |-> Nil, items |-> EmptyCache]
  IN  /\ live' = (loaded.err = Nil)
      /\ Cache' = IF loaded.err = Nil THEN loaded.items ELSE EmptyCache
      /\ UseCache' = DefaultUseCache
      /\ Region' = ""
      /\ BaseURI' = DefaultBaseURI
      /\ UserAgent' = NoAgent
      /\ ret' = [Event("NewClient") EXCEPT !.err = loaded.err]
      /\ UNCHANGED <<file, now, input, conc>>

\* --------------------------------------------------------------- WriteCache
\* variant: nothing is written and no error returned
WriteCache_NoSave ==
  /\ live
  /\ ret' = Event("WriteCache")
  /\ UNCHANGED <<live, Cache, fields, file, now, input, conc>>

WriteCache ==
  /\ live
  /\ \E o \in SaveFile(Cache, file) :
       /\ file' = o.file
       /\ ret' = [Event("WriteCache") EXCEPT !.err = o.err]
  /\ UNCHANGED <<live, Cache, fields, now, input, conc>>

\* ------------------------------------------------------ the caller's fields
SetUseCache(b) ==
  /\ live
  /\ UseCache' = b
  /\ ret' = Event("SetUseCache")
  /\ UNCHANGED <<live, Cache, Region, BaseURI, UserAgent, file, now, input, conc>>

SetRegion(r) ==
  /\ live
  /\ Region' = r
  /\ ret' = Event("SetRegion")
  /\ UNCHANGED <<live, Cache, UseCache, BaseURI, UserAgent, file, now, input, conc>>

SetBaseURI(b) ==
  /\ live
  /\ BaseURI' = b
  /\ ret' = Event("SetBaseURI")
  /\ UNCHANGED <<live, Cache, UseCache, Region, UserAgent, file, now, input, conc>>

\* the field of the README's Client that src/tvmaze.go does not declare
SetUserAgent(a) ==
  /\ live
  /\ UserAgent' = a
  /\ ret' = Event("SetUserAgent")
  /\ UNCHANGED <<live, Cache, UseCache, Region, BaseURI, file, now, input, conc>>

\* ---------------------------------------------------------- the environment
Tick ==
  /\ now < MaxTime
  /\ now' = now + 1
  /\ ret' = Event("Tick")
  /\ UNCHANGED <<live, Cache, fields, file, input, conc>>

\* the store's janitor deletes the expired items
Janitor ==
  /\ live
  /\ \E k \in DOMAIN Cache : Expired(Cache[k], now)
  /\ Cache' = [k \in {j \in DOMAIN Cache : ~Expired(Cache[j], now)} |-> Cache[k]]
  /\ ret' = Event("Janitor")
  /\ UNCHANGED <<live, fields, file, now, input, conc>>

\* somebody else removes, damages or locks away the cache file
FileChange(f) ==
  /\ file # f
  /\ file' = f
  /\ ret' = Event("FileChange")
  /\ UNCHANGED <<live, Cache, fields, now, input, conc>>

\* ------------------------------------------------------------ specification
NoInput == [showname |-> NoName, candidates |-> << >>]
NoCallers == << >>

Init ==
  /\ live = FALSE
  /\ Cache = EmptyCache
  /\ UseCache = FALSE
  /\ Region = ""
  /\ BaseURI = DefaultBaseURI
  /\ file = NoFile
  /\ now = 0
  /\ ret = Event("start")
  /\ input = NoInput
  /\ UserAgent = NoAgent
  /\ callers = NoCallers
  /\ served = {}

Next ==
  \/ NewClient
  \/ WriteCache
  \/ \E uri \in URIs : Go(uri)
  \/ GetShow(QueryName)
  \/ GetEpisodes(ShowID)
  \/ FindShow(QueryName)
  \/ \E b \in BOOLEAN : SetUseCache(b)
  \/ Tick
  \/ Janitor
  \/ \E f \in {NoFile, NoAccessFile, UnreadableFile, CorruptFile} : FileChange(f)

\* a client with the Region and BaseURI of NewClient, and its cache file
Spec == Init /\ [][Next]_vars

\* a client whose caller also sets Region and BaseURI, without a cache file
NextAPI ==
  \/ NewClient
  \/ \E uri \in URIs : Go(uri)
  \/ GetShow(QueryName)
  \/ GetEpisodes(ShowID)
  \/ FindShow(QueryName)
  \/ \E b \in BOOLEAN : SetUseCache(b)
  \/ \E r \in ClientRegions : SetRegion(r)
  \/ \E b \in BaseURIs : SetBaseURI(b)
  \/ \E a \in UserAgents : SetUserAgent(a)
  \/ Tick
  \/ Janitor

SpecAPI == Init /\ [][NextAPI]_vars

\* the resolver on every query, candidate list and region within the bounds
InitResolve ==
  /\ live = TRUE
  /\ Cache = EmptyCache
  /\ UseCache = FALSE
  /\ Region \in Codes
  /\ BaseURI = DefaultBaseURI
  /\ file = NoFile
  /\ now = 0
  /\ ret = Event("start")
  /\ input \in [showname : Names, candidates : CandidateLists]
  /\ UserAgent = NoAgent
  /\ callers = NoCallers
  /\ served = {}

NextResolve == Resolve

SpecResolve == InitResolve /\ [][NextResolve]_vars


\* ================================================================== claims
\* what a step of Go was called with and found in the cache before it
IsGo == ret'.op = "Go"
LiveEntry(uri) == uri \in DOMAIN Cache /\ now <= Cache[uri].Expiration

\* C1: a Go call with UseCache set and a live entry under its URI returns the
\* stored bytes and a nil error, sends no request and leaves the cache as it was.
C1_CacheHit ==
  [][(IsGo /\ UseCache /\ LiveEntry(ret'.uri)) =>
       /\ ret'.data = Cache[ret'.uri].Object
       /\ ret'.err = Nil
       /\ ret'.reqs = 0
       /\ Cache' = Cache]_vars

C1_Witness ==
  /\ ret.op = "Go" /\ UseCache /\ ret.err = Nil /\ ret.reqs = 0
  /\ ret.uri \in DOMAIN Cache /\ ret.data = Cache[ret.uri].Object

\* C2 as stated: with UseCache unset every Go call sends a request, also when
\* a live entry exists, and after a 200 response the entry holds the new body.
C2_Original ==
  [][(IsGo /\ ~UseCache) =>
       /\ ret'.reqs = 1
       /\ (ret'.status = 200 /\ ret'.err = Nil) =>
            /\ ret'.uri \in DOMAIN Cache' /\ now' <= Cache'[ret'.uri].Expiration
            /\ Cache'[ret'.uri].Object = ret'.data]_vars

\* C2 as amended: with UseCache unset every Go call on a URI from which a
\* request can be built sends a request, also when a live entry exists, and
\* after a 200 response whose body was read the entry holds that body; a call
\* on a URI from which no request can be built sends none and fails.
C2_CacheBypass ==
  [][(IsGo /\ ~UseCache) =>
       /\ ret'.uri # BadURI =>
            /\ ret'.reqs = 1
            /\ (ret'.status = 200 /\ ret'.err = Nil) =>
                 /\ ret'.uri \in DOMAIN Cache' /\ now' <= Cache'[ret'.uri].Expiration
                 /\ Cache'[ret'.uri].Object = ret'.data
       /\ ret'.uri = BadURI => (ret'.reqs = 0 /\ ret'.err # Nil)]_vars

\* a live entry is replaced by a different body fetched with UseCache unset
C2_Witness ==
  /\ ret.op = "Go" /\ ~UseCache /\ ret.reqs = 1 /\ ret.err = Nil
  /\ ret.data = Junk /\ Cache[ret.uri].Object = Junk
  /\ file.state = "gob" /\ \E tr \in file.items : tr[1] = ret.uri /\ tr[2] = Doc /\ tr[3] >= now

\* C3: a successful WriteCache puts every entry of the cache into the file,
\* and a NewClient on a file so written succeeds and holds every entry of the
\* file that has not expired, with its value and expiry, so that the store
\* finds it.
C3_PersistenceRoundTrip ==
  [][/\ (ret'.op = "WriteCache" /\ ret'.err = Nil) =>
          /\ file'.state = "gob"
          /\ \A k \in DOMAIN Cache :
               <<k, Cache[k].Object, Cache[k].Expiration>> \in file'.items
     /\ (ret'.op = "NewClient" /\ file.state = "gob") =>
          /\ ret'.err = Nil /\ live'
          /\ \A tr \in file.items : now <= tr[3] =>
               /\ tr[1] \in DOMAIN Cache'
               /\ Cache'[tr[1]] = [Object |-> tr[2], Expiration |-> tr[3]]
               /\ CacheGet(Cache', tr[1], now) = [data |-> tr[2], found |-> TRUE]]_vars

C3_Witness ==
  /\ ret.op = "NewClient" /\ live /\ file.state = "gob"
  /\ \E k \in DOMAIN Cache : now <= Cache[k].Expiration /\ Cache[k].Object = Doc

\* what the resolver was given
cands == input.candidates
IsEqual(i) == ToLower(cands[i].Show.Name) = ToLower(input.showname)
IsPrefix(i) == HasPrefix(cands[i].Show.Name, input.showname)
IsRegional(i) == cands[i].Show.Code = Region /\ IsPrefix(i)
Equals == {i \in DOMAIN cands : IsEqual(i)}
Prefixes == {i \in DOMAIN cands : IsPrefix(i)}
Regionals == {i \in DOMAIN cands : IsRegional(i)}
FirstOf(S) == CHOOSE i \in S : \A j \in S : i <= j
Matched == ret.op = "Match"

\* C4: with Region set and a candidate of that country whose name starts with
\* the query, the first such candidate is returned, whatever precedes it; with
\* Region empty no candidate is accepted for its country: if a candidate
\* equals the query, the one returned equals the query.
C4_RegionPriority ==
  Matched =>
    /\ (Region # "" /\ Regionals # {}) =>
         (ret.err = Nil /\ ret.show = cands[FirstOf(Regionals)].Show)
    /\ (Region = "" /\ Equals # {}) =>
         (ret.err = Nil /\ ToLower(ret.show.Name) = ToLower(input.showname))

\* the regional candidate wins over an earlier equal one of another country
C4_Witness ==
  /\ Matched /\ Region = "US" /\ Len(cands) = 2
  /\ cands[1].Show.Name = input.showname /\ cands[1].Show.Code = ""
  /\ IsRegional(2) /\ ret.show = cands[2].Show

\* C5 as stated: with Region set and no candidate accepted by the region
\* pass, the first candidate equal to the query is returned if there is one,
\* and only otherwise the first candidate that starts with the query.
C5_Original ==
  (Matched /\ Region # "" /\ Regionals = {}) =>
    /\ Equals # {} => (ret.err = Nil /\ ret.show = cands[FirstOf(Equals)].Show)
    /\ (Equals = {} /\ Prefixes # {}) =>
         (ret.err = Nil /\ ret.show = cands[FirstOf(Prefixes)].Show)

\* C6: with Region empty the first candidate equal to the query (ignoring
\* case) is returned if there is one, otherwise the first candidate that
\* starts with the query.
C6_NoRegion ==
  (Matched /\ Region = "") =>
    /\ Equals # {} => (ret.err = Nil /\ ret.show = cands[FirstOf(Equals)].Show)
    /\ (Equals = {} /\ Prefixes # {}) =>
         (ret.err = Nil /\ ret.show = cands[FirstOf(Prefixes)].Show)

\* an equal candidate wins over an earlier one that only starts with the query
C6_Witness ==
  /\ Matched /\ Region = "" /\ Len(cands) = 2
  /\ IsPrefix(1) /\ ~IsEqual(1) /\ IsEqual(2) /\ ~IsPrefix(2)
  /\ ret.show = cands[2].Show

\* C7: the resolver fails, with the not-found error, exactly when no
\* candidate equals the query ignoring case and none starts with it; a show
\* it returns is one of the candidates.
C7_NotFoundIff ==
  Matched =>
    /\ ret.err \in {Nil, ErrNotFound}
    /\ (ret.err = ErrNotFound) <=> (Equals = {} /\ Prefixes = {})
    /\ ret.err = ErrNotFound => ret.show = NoShow
    /\ ret.err = Nil => \E i \in DOMAIN cands : cands[i].Show = ret.show

C7_Witness ==
  /\ Matched /\ ret.err = ErrNotFound /\ Region = "US" /\ Len(cands) = 2
  /\ cands[1].Show.Code = "US" /\ cands[2].Show.Code = "US"

\* C8: a response with a status other than 200 makes Go return no data and
\* the error "Request failed: " followed by the reason of that status, and
\* GetShow, FindShow and GetEpisodes return that same error and no result.
C8_StatusPropagation ==
  [][(ret'.op \in {"Go", "GetShow", "FindShow", "GetEpisodes"} /\ ret'.status \notin {0, 200}) =>
       /\ ret'.status = 404 => ret'.err = "Request failed: Not Found"
       /\ ret'.status = 599 => ret'.err = "Request failed: "
       /\ ret'.data = Nil /\ ret'.cands = << >> /\ ret'.show = NoShow
       /\ ret'.reqs = 1
       /\ ~ret'.exit]_vars

\* FindShow, with a region set and a stored entry bypassed, gets a 404
C8_Witness ==
  /\ ret.op = "FindShow" /\ ret.status = 404 /\ ret.err = "Request failed: Not Found"
  /\ Region = "US" /\ LiveEntry(ret.uri)

\* C9: NewClient on a path where no file exists returns a client with an
\* empty cache and a nil error, and creates no file.
C9_MissingFile ==
  [][(ret'.op = "NewClient" /\ file.state = "absent") =>
       /\ live' /\ ret'.err = Nil
       /\ Cache' = EmptyCache
       /\ file'.state = "absent"]_vars

\* the file was there before and has been removed
C9_Witness ==
  /\ ret.op = "NewClient" /\ live /\ file.state = "absent" /\ now > 0

\* C10 as stated: a cache file that exists but cannot be reached, read or
\* decoded makes NewClient return an error and no client; only an absent file
\* gives an empty cache without an error.
C10_Original ==
  [][ret'.op = "NewClient" =>
       /\ file.state \in {"noaccess", "unreadable", "corrupt"} => (ret'.err # Nil /\ ~live')
       /\ (ret'.err = Nil /\ file.state # "gob") => file.state = "absent"]_vars

IsCall(op) == op \in {"Go", "GetShow", "FindShow", "GetEpisodes"}

\* C11 as stated: no call of Go, GetShow, FindShow or GetEpisodes ends the
\* process; a call that meets an unparsable base URI or a status other than
\* 200 returns an error to its caller, and no result.
C11_Original ==
  IsCall(ret.op) =>
    /\ ~ret.exit
    /\ (ret.status \notin {0, 200} \/ (ret.op # "Go" /\ ret.gocalls = 0)) =>
         (ret.err # Nil /\ ret.data = Nil /\ ret.cands = << >> /\ ret.show = NoShow)

\* C12 as stated: every request Go sends carries the UserAgent the caller
\* has set as its header, and no such header when none is set.
C12_Original ==
  (ret.op = "Go" /\ ret.reqs > 0) => ret.agent = UserAgent

\* ------------------------------------------- Go under concurrent callers
\* One call of Go by caller p in its three steps: the lookup c.Cache.Get and
\* the test of its result, the request c.Do with the read of the body, and
\* the store c.Cache.Set with the return.  The store serialises Get and Set.
Callers == 1..NumCallers
Idle == [pc |-> "idle", uri |-> BadURI, body |-> Nil]

\* variant: the body read is kept in one place shared by the callers
Body_Shared(p) ==
  LET holding == {q \in Callers : callers[q].pc = "set"}
  IN  callers[CHOOSE q \in holding : \A r \in holding : q >= r].body

\* the local variable data of the call
Body(p) == callers[p].body

GoGet(p, uri) ==
  /\ live
  /\ callers[p].pc = "idle"
  /\ LET got == CacheGet(Cache, uri, now)
         ev == [Event("Go") EXCEPT !.uri = uri, !.gocalls = 1]
     IN  IF Miss(got.found)
         THEN IF NewRequest(uri) # Nil
              THEN /\ ret' = [ev EXCEPT !.err = NewRequest(uri)]
                   /\ UNCHANGED callers
              ELSE /\ ret' = Event("GoGet")
                   /\ callers' = [callers EXCEPT ![p] = [pc |-> "do", uri |-> uri, body |-> Nil]]
         ELSE /\ ret' = [ev EXCEPT !.data = got.data]
              /\ UNCHANGED callers
  /\ UNCHANGED <<live, Cache, fields, file, now, input, served>>

GoDo(p) ==
  /\ callers[p].pc = "do"
  /\ \E resp \in Responses :
       LET uri == callers[p].uri
           ev == [Event("Go") EXCEPT !.uri = uri, !.gocalls = 1, !.reqs = Sent(resp),
                                     !.agent = RequestAgent]
       IN  IF resp.err # Nil
           THEN /\ ret' = [ev EXCEPT !.err = resp.err]
                /\ callers' = [callers EXCEPT ![p] = Idle]
                /\ UNCHANGED served
           ELSE IF resp.status # 200
           THEN /\ ret' = [ev EXCEPT !.err = StatusError(resp.status), !.status = resp.status]
                /\ callers' = [callers EXCEPT ![p] = Idle]
                /\ UNCHANGED served
           ELSE IF resp.readErr # Nil
           THEN /\ ret' = [ev EXCEPT !.err = resp.readErr, !.status = 200]
                /\ callers' = [callers EXCEPT ![p] = Idle]
                /\ UNCHANGED served
           ELSE /\ ret' = Event("GoDo")
                /\ callers' = [callers EXCEPT ![p] = [pc |-> "set", uri |-> uri, body |-> resp.body]]
                /\ served' = served \cup {<<uri, resp.body>>}
  /\ UNCHANGED <<live, Cache, fields, file, now, input>>

GoSet(p) ==
  /\ callers[p].pc = "set"
  /\ Cache' = Store(callers[p].uri, Body(p))
  /\ ret' = [Event("Go") EXCEPT !.uri = callers[p].uri, !.data = Body(p), !.gocalls = 1,
                                 !.reqs = 1, !.status = 200, !.agent = RequestAgent]
  /\ callers' = [callers EXCEPT ![p] = Idle]
  /\ UNCHANGED <<live, fields, file, now, input, served>>

\* a client built on no cache file, UseCache set or not, with idle callers
InitConc ==
  /\ live = TRUE
  /\ Cache = EmptyCache
  /\ UseCache \in BOOLEAN
  /\ Region = ""
  /\ BaseURI = DefaultBaseURI
  /\ file = NoFile
  /\ now = 0
  /\ ret = Event("start")
  /\ input = NoInput
  /\ UserAgent = NoAgent
  /\ callers = [p \in Callers |-> Idle]
  /\ served = {}

NextConc ==
  \/ \E p \in Callers, uri \in URIs : GoGet(p, uri)
  \/ \E p \in Callers : GoDo(p)
  \/ \E p \in Callers : GoSet(p)

SpecConc == InitConc /\ [][NextConc]_vars

\* C20: under every interleaving of the callers' Go calls each entry of the
\* cache is a body that a 200 response delivered for the entry's URI, each
\* successful call returns a body that a 200 response delivered for its URI,
\* and a store leaves the storing caller's body as the entry.
C20_SharedCache ==
  [][/\ \A k \in DOMAIN Cache' : <<k, Cache'[k].Object>> \in served'
     /\ (ret'.op = "Go" /\ ret'.err = Nil) => <<ret'.uri, ret'.data>> \in served'
     /\ \A p \in Callers : (callers[p].pc = "set" /\ callers'[p].pc = "idle") =>
          /\ callers[p].uri \in DOMAIN Cache'
          /\ Cache'[callers[p].uri].Object = callers[p].body
          /\ ret'.data = callers[p].body]_vars

\* two callers have each fetched the same uncached URI and hold different
\* bodies to store
C20_Witness ==
  /\ callers # NoCallers
  /\ callers[1].pc = "set" /\ callers[2].pc = "set"
  /\ callers[1].uri = callers[2].uri /\ callers[1].body # callers[2].body
  /\ callers[1].uri \notin DOMAIN Cache

\* C13: Go stores a body with an expiry one default expiration after the
\* time of the store; a Go call with UseCache set on a stored URI returns the
\* stored bytes without a request while the clock has not passed the expiry,
\* and sends a request once it has, storing the new body with a new expiry.
C13_Expiry ==
  [][IsGo =>
       /\ (ret'.reqs > 0 /\ ret'.err = Nil) =>
            /\ ret'.uri \in DOMAIN Cache'
            /\ Cache'[ret'.uri] = [Object |-> ret'.data, Expiration |-> now + DefaultExpiration]
       /\ (UseCache /\ ret'.uri \in DOMAIN Cache) =>
            /\ now <= Cache[ret'.uri].Expiration =>
                 (ret'.reqs = 0 /\ ret'.err = Nil /\ ret'.data = Cache[ret'.uri].Object)
            /\ now > Cache[ret'.uri].Expiration => ret'.reqs = 1]_vars

\* an entry that has expired (the file still holds it) is fetched again
C13_Witness ==
  /\ ret.op = "Go" /\ UseCache /\ ret.reqs = 1 /\ ret.err = Nil
  /\ Cache[ret.uri].Expiration = now + DefaultExpiration
  /\ file.state = "gob" /\ \E tr \in file.items : tr[1] = ret.uri /\ tr[3] < now

\* C14 as stated: a call sends at most one request, and each call of
\* GetEpisodes and of FindShow makes exactly one Go call.
C14_Original ==
  IsCall(ret.op) =>
    /\ ret.reqs <= 1
    /\ ret.op \in {"GetEpisodes", "FindShow"} => ret.gocalls = 1

\* C14 as amended: a call sends at most one request; each call of
\* GetEpisodes, GetShow and FindShow makes exactly one Go call when the base
\* URI parses and none when it does not; a call whose request failed has sent
\* exactly one request.
C14_NoRetry ==
  [][IsCall(ret'.op) =>
       /\ ret'.reqs <= 1
       /\ ret'.gocalls <= 1
       /\ ret'.op # "Go" => ret'.gocalls = (IF BaseURI = BadBaseURI THEN 0 ELSE 1)
       /\ (ret'.err = ErrTransport \/ ret'.status \notin {0, 200}) => ret'.reqs = 1]_vars

\* FindShow returns a show accepted in the second round of its loop after
\* one request
C14_Witness ==
  /\ ret.op = "FindShow" /\ Region = "US" /\ ret.err = Nil
  /\ ret.show.Name = <<"a", "a">> /\ ret.reqs = 1 /\ ret.gocalls = 1

\* C15: no operation of the client but WriteCache changes the cache file; a
\* successful WriteCache leaves a file that holds entries of the cache only
\* and every entry that has not expired; a new client holds no entry that the
\* file does not hold.
C15_CallerDrivenPersistence ==
  [][/\ ret'.op \notin {"WriteCache", "FileChange"} => file' = file
     /\ (ret'.op = "WriteCache" /\ ret'.err = Nil) =>
          /\ file'.state = "gob"
          /\ \A tr \in file'.items :
               tr[1] \in DOMAIN Cache /\ Cache[tr[1]] = [Object |-> tr[2], Expiration |-> tr[3]]
          /\ \A k \in DOMAIN Cache : now <= Cache[k].Expiration =>
               <<k, Cache[k].Object, Cache[k].Expiration>> \in file'.items
     /\ (ret'.op = "NewClient" /\ live') =>
          \A k \in DOMAIN Cache' : <<k, Cache'[k].Object, Cache'[k].Expiration>> \in file.items]_vars

\* an entry fetched after the last WriteCache is in the cache and not in the
\* file
C15_Witness ==
  /\ ret.op = "Go" /\ ret.err = Nil /\ ret.reqs = 1 /\ ret.uri \in DOMAIN Cache
  /\ file.state = "gob" /\ file.items # {}
  /\ \A tr \in file.items : tr[1] # ret.uri

\* C16 as stated: a fetch stores its body when UseCache is set and leaves
\* the cache as it was when UseCache is not set.
C16_Original ==
  [][IsGo =>
       /\ ~UseCache => Cache' = Cache
       /\ (UseCache /\ ret'.reqs > 0 /\ ret'.err = Nil) =>
            (ret'.uri \in DOMAIN Cache' /\ Cache'[ret'.uri].Object = ret'.data)]_vars

\* C17: a Go call that returns an error leaves the cache as it was.
C17_FailedFetchFrame ==
  [][(IsGo /\ ret'.err # Nil) => (Cache' = Cache /\ ret'.data = Nil)]_vars

\* a refresh with UseCache unset fails and the live entry stays
C17_Witness ==
  /\ ret.op = "Go" /\ ~UseCache /\ ret.status = 404 /\ ret.reqs = 1
  /\ LiveEntry(ret.uri)

\* C18 as stated: NewClient returns a client with UseCache unset; while it
\* is unset every call sends a request, whatever the cache holds, and only a
\* call with UseCache set is served from the cache.
C18_Original ==
  [][/\ (ret'.op = "NewClient" /\ live') => ~UseCache'
     /\ (IsCall(ret'.op) /\ ~UseCache) => ret'.reqs = 1
     /\ (IsCall(ret'.op) /\ ret'.reqs = 0 /\ ret'.err = Nil) => UseCache]_vars

\* C18 as amended: NewClient returns a client with UseCache unset; while it
\* is unset every call on a URI from which a request can be built sends a
\* request, whatever the cache holds, and only a call with UseCache set is
\* served from the cache.
C18_DefaultBypass ==
  [][/\ (ret'.op = "NewClient" /\ live') => ~UseCache'
     /\ (IsCall(ret'.op) /\ ~UseCache /\ ret'.uri # BadURI) => ret'.reqs = 1
     /\ (IsCall(ret'.op) /\ ~UseCache /\ ret'.uri = BadURI) => (ret'.reqs = 0 /\ ret'.err # Nil)
     /\ (IsCall(ret'.op) /\ ret'.reqs = 0 /\ ret'.err = Nil) => UseCache]_vars

\* GetShow on a new client sends a request although the entry loaded from
\* the file is live
C18_Witness ==
  /\ ret.op = "GetShow" /\ ~UseCache /\ ret.reqs = 1 /\ ret.status = 404
  /\ LiveEntry(ret.uri)
  /\ file.state = "gob" /\ <<ret.uri, Cache[ret.uri].Object, Cache[ret.uri].Expiration>> \in file.items

\* C19: a 200 body that does not decode is stored before GetShow or
\* GetEpisodes fails to decode it, and while that entry is live a call with
\* UseCache set fails with the decode error, sends no request and leaves the
\* cache as it was.
C19_UndecodableCached ==
  [][ret'.op \in {"GetShow", "GetEpisodes"} =>
       /\ (ret'.reqs > 0 /\ ret'.status = 200 /\ ret'.err = ErrDecode) =>
            /\ ret'.uri \in DOMAIN Cache'
            /\ Cache'[ret'.uri] = [Object |-> Junk, Expiration |-> now + DefaultExpiration]
       /\ (UseCache /\ LiveEntry(ret'.uri) /\ Cache[ret'.uri].Object = Junk) =>
            (ret'.err = ErrDecode /\ ret'.reqs = 0 /\ Cache' = Cache)]_vars

C19_Witness ==
  /\ ret.op = "GetEpisodes" /\ UseCache /\ ret.err = ErrDecode /\ ret.reqs = 0
  /\ LiveEntry(ret.uri)

====
